---- MODULE Spec2Model ----
(***************************************************************************)
(* Model of the transfer account system (RadixTransferAccountSystem.ts):   *)
(* the UTXO projection folding STORE / DELETE atom updates into            *)
(* transactions, balance, unspentConsumables and spentConsumables, with    *)
(* its two reactive outputs (balanceSubject, transactionSubject) and the   *)
(* cold stream getAllTransactions().                                       *)
(***************************************************************************)
EXTENDS Integers, Sequences, FiniteSets, TLC

\* ------------------------------------------------------------------------
\* Bounds
\* ------------------------------------------------------------------------
\* number of atom updates fed to processAtomUpdate in one behaviour
MaxUpdates == 4
\* number of subscriptions made to getAllTransactions() in one behaviour
MaxObservers == 1

\* ------------------------------------------------------------------------
\* The universe of inputs
\* ------------------------------------------------------------------------
\* this.address, and two foreign addresses
address == "X"
Addresses == {"X", "Y", "Z"}

TokenClasses == {"T", "U"}

\* RadixSpin
UP == "UP"
DOWN == "DOWN"

\* Particles, keyed by particle._id.  kind "tokens" is a RadixOwnedTokensParticle,
\* "fee" a RadixFeeParticle (a subclass of it), "other" any other particle.
ParticleIds == {"p1", "p2", "p3", "p4", "p5", "f1", "f2", "m1"}

Particle(id) ==
    CASE id = "p1" -> [_id |-> "p1", kind |-> "tokens", address |-> "X", amount |-> 100, token |-> "T"]
      [] id = "p2" -> [_id |-> "p2", kind |-> "tokens", address |-> "X", amount |-> 30,  token |-> "T"]
      [] id = "p3" -> [_id |-> "p3", kind |-> "tokens", address |-> "Y", amount |-> 70,  token |-> "T"]
      [] id = "p4" -> [_id |-> "p4", kind |-> "tokens", address |-> "X", amount |-> 5,   token |-> "U"]
      [] id = "p5" -> [_id |-> "p5", kind |-> "tokens", address |-> "Z", amount |-> 40,  token |-> "U"]
      [] id = "f2" -> [_id |-> "f2", kind |-> "fee",    address |-> "Y", amount |-> 3,   token |-> "T"]
      [] id = "f1" -> [_id |-> "f1", kind |-> "fee",    address |-> "X", amount |-> 7,   token |-> "T"]
      [] id = "m1" -> [_id |-> "m1", kind |-> "other",  address |-> "Y", amount |-> 0,   token |-> "T"]

Spun(spin, id) == [spin |-> spin, particle |-> Particle(id)]

\* RadixDecryptionState, and "NONE" for an update without decryptedData
DecryptionStates == {"DECRYPTED", "ENCRYPTED_NOT_OWNED", "CANNOT_DECRYPT", "NONE"}

\* Atoms, keyed by hid (RadixAtom: hid, timestamps.default, particles).
Hids == {"a1", "a2", "a3", "a4", "a5", "a6"}

Atom(hid) ==
    CASE hid = "a1" -> [hid |-> "a1", timestamp |-> 1,
                        particles |-> <<Spun(UP, "p1")>>]
      [] hid = "a2" -> [hid |-> "a2", timestamp |-> 2,
                        particles |-> <<Spun(DOWN, "p1"), Spun(UP, "p2"), Spun(UP, "p3")>>]
      [] hid = "a3" -> [hid |-> "a3", timestamp |-> 3,
                        particles |-> <<Spun(DOWN, "p4"), Spun(UP, "p4"), Spun(UP, "m1")>>]
      [] hid = "a4" -> [hid |-> "a4", timestamp |-> 4,
                        particles |-> <<Spun(UP, "f1"), Spun(UP, "p4"), Spun(UP, "p3")>>]
      [] hid = "a5" -> [hid |-> "a5", timestamp |-> 5,
                        particles |-> <<Spun(UP, "m1")>>]
      [] hid = "a6" -> [hid |-> "a6", timestamp |-> 6,
                        particles |-> <<Spun(DOWN, "p3"), Spun(UP, "p5"), Spun(UP, "f2")>>]

\* processedData.decryptedData of the update that carries the atom
DecryptedData(hid) ==
    CASE hid = "a1" -> [decryptionState |-> "DECRYPTED", data |-> "hello"]
      [] hid = "a2" -> [decryptionState |-> "CANNOT_DECRYPT", data |-> "garbled"]
      [] hid = "a3" -> [decryptionState |-> "ENCRYPTED_NOT_OWNED", data |-> "cipher"]
      [] OTHER      -> [decryptionState |-> "NONE", data |-> ""]

\* RadixAtomUpdate
AtomUpdate(action, hid) ==
    [action |-> action, atom |-> Atom(hid), decryptedData |-> DecryptedData(hid)]

AtomUpdates == {AtomUpdate(act, h) : act \in {"STORE", "DELETE"}, h \in Hids}

\* ------------------------------------------------------------------------
\* State
\* ------------------------------------------------------------------------
VARIABLES
    transactions,         \* TSMap hid -> RadixTransaction, in insertion order
    balance,              \* { [tokenId]: BN }
    unspentConsumables,   \* TSMap particle._id -> particle (the set of its keys)
    spentConsumables,     \* TSMap particle._id -> particle (the set of its keys)
    emissions,            \* everything emitted on balanceSubject / transactionSubject
    observers,            \* the observers attached through getAllTransactions()
    history,              \* the updates handed to processAtomUpdate so far, each with
                          \* the state (pre) and the number of emissions (emitted)
                          \* at the moment it was handed over
    conn,                 \* the fields of a RadixNodeConnection
    audit,                \* what has happened on the connection so far
    cache                 \* a RadixCacheAccountSystem and its cache provider

vars == <<transactions, balance, unspentConsumables, spentConsumables,
          emissions, observers, history, conn, audit, cache>>

transferVars == <<transactions, balance, unspentConsumables, spentConsumables,
                  emissions, observers, history>>

\* ------------------------------------------------------------------------
\* Helpers for { [key]: BN } objects
\* ------------------------------------------------------------------------
Get(obj, k) == IF k \in DOMAIN obj THEN obj[k] ELSE 0

Put(obj, k, v) == [x \in (DOMAIN obj) \cup {k} |-> IF x = k THEN v ELSE obj[x]]

EmptyObj == [x \in {} |-> 0]

\* The four collections of the system as one value
State == [transactions |-> transactions, balance |-> balance,
          unspentConsumables |-> unspentConsumables,
          spentConsumables |-> spentConsumables]

\* transactions.has(hid)
Has(txs, hid) == \E i \in 1..Len(txs) : txs[i].hid = hid

\* transactions.get(hid)
TxGet(txs, hid) == txs[CHOOSE i \in 1..Len(txs) : txs[i].hid = hid]

\* transactions.delete(hid): TSMap removes the key and keeps the order of the rest
TxDelete(txs, hid) == SelectSeq(txs, LAMBDA t : t.hid # hid)

\* ------------------------------------------------------------------------
\* Atom queries
\* ------------------------------------------------------------------------
\* particle instanceof RadixOwnedTokensParticle (a fee particle is one too)
IsOwnedTokensParticle(p) == p.kind \in {"tokens", "fee"}

\* atom.getSpunParticlesOfType(RadixOwnedTokensParticle)
getSpunParticlesOfType(atom) ==
    SelectSeq(atom.particles, LAMBDA c : IsOwnedTokensParticle(c.particle))

\* atom.containsParticle(RadixOwnedTokensParticle)
containsParticle(atom) ==
    \E i \in 1..Len(atom.particles) : IsOwnedTokensParticle(atom.particles[i].particle)

\* ------------------------------------------------------------------------
\* processStoreAtom
\* ------------------------------------------------------------------------
\* const quantity = new BN(1)
StoreQuantityInit == 1

\* One iteration of the loop over the consumables.  acc carries the two
\* consumable sets and the transaction being built.
StoreConsumable_Unguarded(acc, c) ==
    LET particle  == c.particle
        ownedByMe == particle.address = address
        isFee     == particle.kind = "fee"
        tok       == particle.token
    IN  IF ownedByMe /\ ~isFee
        THEN LET quantity == IF c.spin = DOWN THEN StoreQuantityInit - particle.amount
                             ELSE StoreQuantityInit + particle.amount
                 unspent  == IF c.spin = DOWN THEN acc.unspent \ {particle._id}
                             ELSE acc.unspent \cup {particle._id}
                 spent    == IF c.spin = DOWN THEN acc.spent \cup {particle._id}
                             ELSE acc.spent
             IN  [acc EXCEPT !.unspent = unspent, !.spent = spent,
                             !.balance = Put(acc.balance, tok, Get(acc.balance, tok) + quantity)]
        ELSE IF ~ownedByMe /\ ~isFee
        THEN [acc EXCEPT !.participants = @ \cup {particle.address}]
        ELSE acc

\* the loop body with the participants branch taken by every particle that
\* is not an owned non-fee one (the !isFee test of the else branch dropped)
StoreConsumable_FeeParticipant(acc, c) ==
    LET particle  == c.particle
        ownedByMe == particle.address = address
        isFee     == particle.kind = "fee"
        tok       == particle.token
    IN  IF ownedByMe /\ ~isFee
        THEN LET quantity == IF c.spin = DOWN THEN StoreQuantityInit - particle.amount
                             ELSE StoreQuantityInit + particle.amount
                 unspent  == IF c.spin = DOWN THEN acc.unspent \ {particle._id}
                             ELSE IF particle._id \notin acc.spent
                                  THEN acc.unspent \cup {particle._id}
                             ELSE acc.unspent
                 spent    == IF c.spin = DOWN THEN acc.spent \cup {particle._id}
                             ELSE acc.spent
             IN  [acc EXCEPT !.unspent = unspent, !.spent = spent,
                             !.balance = Put(acc.balance, tok, Get(acc.balance, tok) + quantity)]
        ELSE [acc EXCEPT !.participants = @ \cup {particle.address}]

StoreConsumable(acc, c) ==
    LET particle  == c.particle
        ownedByMe == particle.address = address
        isFee     == particle.kind = "fee"
        tok       == particle.token
    IN  IF ownedByMe /\ ~isFee
        THEN LET quantity == IF c.spin = DOWN THEN StoreQuantityInit - particle.amount
                             ELSE IF c.spin = UP THEN StoreQuantityInit + particle.amount
                             ELSE StoreQuantityInit
                 unspent  == IF c.spin = DOWN THEN acc.unspent \ {particle._id}
                             ELSE IF c.spin = UP /\ particle._id \notin acc.spent
                                  THEN acc.unspent \cup {particle._id}
                             ELSE acc.unspent
                 spent    == IF c.spin = DOWN THEN acc.spent \cup {particle._id}
                             ELSE acc.spent
             IN  [acc EXCEPT !.unspent = unspent, !.spent = spent,
                             !.balance = Put(acc.balance, tok, Get(acc.balance, tok) + quantity)]
        ELSE IF ~ownedByMe /\ ~isFee
        THEN [acc EXCEPT !.participants = @ \cup {particle.address}]
        ELSE acc

RECURSIVE StoreFold(_, _, _)
StoreFold(consumables, i, acc) ==
    IF i > Len(consumables) THEN acc
    ELSE StoreFold(consumables, i + 1, StoreConsumable(acc, consumables[i]))

\* transaction.message
Message(upd) ==
    IF upd.decryptedData.decryptionState # "NONE"
       /\ upd.decryptedData.decryptionState # "CANNOT_DECRYPT"
    THEN upd.decryptedData.data
    ELSE ""

\* for (const tokenId in transaction.balance) this.balance[tokenId].iadd(...)
AddBalance(bal, txBalance) ==
    [k \in (DOMAIN bal) \cup (DOMAIN txBalance) |-> Get(bal, k) + Get(txBalance, k)]

\* for (const tokenId in transaction.balance) this.balance[tokenId].isub(...)
SubBalance(bal, txBalance) ==
    [k \in (DOMAIN bal) \cup (DOMAIN txBalance) |-> Get(bal, k) - Get(txBalance, k)]

\* balanceSubject.next(this.balance), observed while the system is in state seen
BalanceEmission(seen) ==
    [subject |-> "balance", balance |-> seen.balance, seen |-> seen]

\* transactionSubject.next(transactionUpdate), observed while the system is in state seen
TransactionEmission(seen, transactionUpdate) ==
    [subject |-> "transaction", update |-> transactionUpdate, seen |-> seen]

NoEffect(s) == [state |-> s, emits |-> <<>>]

StoreApply(s, upd) ==
    LET atom   == upd.atom
        folded == StoreFold(getSpunParticlesOfType(atom), 1,
                            [unspent |-> s.unspentConsumables, spent |-> s.spentConsumables,
                             balance |-> EmptyObj, participants |-> {}])
        transaction == [hid |-> atom.hid, balance |-> folded.balance, fee |-> 0,
                        participants |-> folded.participants,
                        timestamp |-> atom.timestamp, message |-> Message(upd)]
        transactionUpdate == [action |-> "STORE", hid |-> atom.hid, transaction |-> transaction]
        s1 == [s EXCEPT !.unspentConsumables = folded.unspent,
                        !.spentConsumables = folded.spent]
        s2 == [s1 EXCEPT !.transactions = Append(@, transaction)]
        s3 == [s2 EXCEPT !.balance = AddBalance(@, transaction.balance)]
    IN  [state |-> s3, s2 |-> s2, transactionUpdate |-> transactionUpdate]

processStoreAtom_AlwaysApplies(s, upd) ==
    LET r == StoreApply(s, upd)
    IN  [state |-> r.state,
         emits |-> <<BalanceEmission(r.state), TransactionEmission(r.state, r.transactionUpdate)>>]

processStoreAtom_EmitsEarly(s, upd) ==
    IF Has(s.transactions, upd.atom.hid) THEN NoEffect(s)
    ELSE LET r == StoreApply(s, upd)
         IN  [state |-> r.state,
              emits |-> <<TransactionEmission(r.s2, r.transactionUpdate), BalanceEmission(r.state)>>]

processStoreAtom(s, upd) ==
    IF Has(s.transactions, upd.atom.hid) THEN NoEffect(s)
    ELSE LET r == StoreApply(s, upd)
         IN  [state |-> r.state,
              emits |-> <<BalanceEmission(r.state), TransactionEmission(r.state, r.transactionUpdate)>>]

\* ------------------------------------------------------------------------
\* processDeleteAtom
\* ------------------------------------------------------------------------
\* const quantity = new BN(0)
DeleteQuantityInit == 0

\* One iteration of the loop over the consumables.  acc carries the two
\* consumable sets and the stored transaction, which the loop writes into.
DeleteConsumable(acc, c) ==
    LET particle  == c.particle
        ownedByMe == particle.address = address
        isFee     == particle.kind = "fee"
        tok       == particle.token
    IN  IF ownedByMe /\ ~isFee
        THEN LET quantity == IF c.spin = DOWN THEN DeleteQuantityInit + particle.amount
                             ELSE IF c.spin = UP THEN DeleteQuantityInit - particle.amount
                             ELSE DeleteQuantityInit
                 unspent  == IF c.spin = DOWN THEN acc.unspent \cup {particle._id}
                             ELSE IF c.spin = UP THEN acc.unspent \ {particle._id}
                             ELSE acc.unspent
                 spent    == IF c.spin = DOWN THEN acc.spent \ {particle._id}
                             ELSE IF c.spin = UP THEN acc.spent \cup {particle._id}
                             ELSE acc.spent
             IN  [acc EXCEPT !.unspent = unspent, !.spent = spent,
                             !.balance = Put(acc.balance, tok, Get(acc.balance, tok) + quantity)]
        ELSE IF ~ownedByMe /\ ~isFee
        THEN [acc EXCEPT !.participants = @ \cup {particle.address}]
        ELSE acc

RECURSIVE DeleteFold(_, _, _)
DeleteFold(consumables, i, acc) ==
    IF i > Len(consumables) THEN acc
    ELSE DeleteFold(consumables, i + 1, DeleteConsumable(acc, consumables[i]))

\* a DELETE that leaves the transaction in the map
DeleteApply_KeepsTransaction(s, upd, stored) ==
    LET atom   == upd.atom
        folded == DeleteFold(getSpunParticlesOfType(atom), 1,
                             [unspent |-> s.unspentConsumables, spent |-> s.spentConsumables,
                              balance |-> stored.balance, participants |-> stored.participants])
        transaction == [stored EXCEPT !.balance = folded.balance,
                                      !.participants = folded.participants]
        transactionUpdate == [action |-> "DELETE", hid |-> atom.hid, transaction |-> transaction]
        s1 == [s EXCEPT !.unspentConsumables = folded.unspent,
                        !.spentConsumables = folded.spent]
        s3 == [s1 EXCEPT !.balance = SubBalance(@, transaction.balance)]
    IN  [state |-> s3,
         emits |-> <<BalanceEmission(s3), TransactionEmission(s3, transactionUpdate)>>]

\* The transaction a DELETE works on: transactions.get(hid)
DeleteApply(s, upd, stored) ==
    LET atom   == upd.atom
        folded == DeleteFold(getSpunParticlesOfType(atom), 1,
                             [unspent |-> s.unspentConsumables, spent |-> s.spentConsumables,
                              balance |-> stored.balance, participants |-> stored.participants])
        transaction == [stored EXCEPT !.balance = folded.balance,
                                      !.participants = folded.participants]
        transactionUpdate == [action |-> "DELETE", hid |-> atom.hid, transaction |-> transaction]
        s1 == [s EXCEPT !.unspentConsumables = folded.unspent,
                        !.spentConsumables = folded.spent]
        s2 == [s1 EXCEPT !.transactions = TxDelete(@, atom.hid)]
        s3 == [s2 EXCEPT !.balance = SubBalance(@, transaction.balance)]
    IN  [state |-> s3,
         emits |-> <<BalanceEmission(s3), TransactionEmission(s3, transactionUpdate)>>]

\* a DELETE that does not skip an atom it never stored (it folds into a blank transaction)
processDeleteAtom_AlwaysApplies(s, upd) ==
    IF Has(s.transactions, upd.atom.hid)
    THEN DeleteApply(s, upd, TxGet(s.transactions, upd.atom.hid))
    ELSE DeleteApply(s, upd, [hid |-> upd.atom.hid, balance |-> EmptyObj, fee |-> 0,
                              participants |-> {}, timestamp |-> upd.atom.timestamp,
                              message |-> ""])

processDeleteAtom(s, upd) ==
    IF ~Has(s.transactions, upd.atom.hid) THEN NoEffect(s)
    ELSE DeleteApply(s, upd, TxGet(s.transactions, upd.atom.hid))

\* ------------------------------------------------------------------------
\* processAtomUpdate
\* ------------------------------------------------------------------------
\* the dispatch without the containsParticle test
processAtomUpdate_NoFilter(s, upd) ==
    IF upd.action = "STORE" THEN processStoreAtom(s, upd)
    ELSE IF upd.action = "DELETE" THEN processDeleteAtom(s, upd)
    ELSE NoEffect(s)

processAtomUpdate(s, upd) ==
    IF ~containsParticle(upd.atom) THEN NoEffect(s)
    ELSE IF upd.action = "STORE" THEN processStoreAtom(s, upd)
    ELSE IF upd.action = "DELETE" THEN processDeleteAtom(s, upd)
    ELSE NoEffect(s)

\* ------------------------------------------------------------------------
\* getAllTransactions
\* ------------------------------------------------------------------------
\* what the subscribe function pushes to a new observer before it subscribes
\* the observer to transactionSubject
getAllTransactions_NoReplay(txs) == <<>>

getAllTransactions(txs) ==
    [i \in 1..Len(txs) |-> [action |-> "STORE", hid |-> txs[i].hid, transaction |-> txs[i]]]

\* the transaction updates among a sequence of emissions, in order
RECURSIVE TransactionUpdates(_)
TransactionUpdates(ems) ==
    IF ems = <<>> THEN <<>>
    ELSE IF Head(ems).subject = "transaction"
         THEN <<Head(ems).update>> \o TransactionUpdates(Tail(ems))
         ELSE TransactionUpdates(Tail(ems))

\* ========================================================================
\* Node connection (RadixNodeConnection)
\* ========================================================================
\* Bounds
\* highest subscriberId getSubscriberId() hands out in one behaviour
MaxSubscriberId == 3
\* number of AtomSubmissionState.onNext notifications pushed in one behaviour
MaxNotifications == 2
\* number of unsubscribeAll() calls in one behaviour
MaxUnsubscribeAlls == 1
\* number of calls the application makes on the connection in one behaviour
\* (subscribe, unsubscribe, unsubscribeAll, submitAtom)
MaxCalls == 2
\* number of calls the application makes in one behaviour of the
\* subscription workload (subscribe, unsubscribe, unsubscribeAll)
MaxSubsCalls == 3
\* number of Atoms.subscribeUpdate notifications pushed in one behaviour
MaxAtomNotifications == 1

\* addresses the application subscribes to
ConnAddresses == {"A", "B"}

\* AtomSubmissionState.onNext values
TerminalFailures == {"COLLISION", "ILLEGAL_STATE", "UNSUITABLE_PEER", "VALIDATION_ERROR"}
NotificationValues == {"SUBMITTING", "SUBMITTED", "STORED"} \cup TerminalFailures

\* the values the node pushes in the behaviours explored: one for each branch
\* of the handler's switch
PushedValues == {"SUBMITTING", "STORED", "COLLISION"}

\* notification.message
NotificationMessage == "msg"

\* value + ': ' + message
FailureError(value, message) ==
    CASE value = "COLLISION"        -> "COLLISION: msg"
      [] value = "ILLEGAL_STATE"    -> "ILLEGAL_STATE: msg"
      [] value = "UNSUITABLE_PEER"  -> "UNSUITABLE_PEER: msg"
      [] value = "VALIDATION_ERROR" -> "VALIDATION_ERROR: msg"

\* the rejection value of a failed RPC call
CallError == "call failed"

\* the atoms of an Atoms.subscribeUpdate payload as transported: content names
\* the atom the JSON describes, hid is the hid field sent along with it ("" when
\* none is sent).  The second one carries a hid that is not the hash of its content.
SerializedAtom(content) ==
    CASE content = "a1" -> [content |-> "a1", hid |-> "a1"]
      [] content = "a2" -> [content |-> "a2", hid |-> "a9"]
      [] content = "a3" -> [content |-> "a3", hid |-> ""]

\* notification.atoms: an empty payload, one atom, two atoms in either order,
\* the same atom twice
Payloads ==
    {<<>>,
     <<SerializedAtom("a3")>>,
     <<SerializedAtom("a1"), SerializedAtom("a2")>>,
     <<SerializedAtom("a2"), SerializedAtom("a1")>>,
     <<SerializedAtom("a2"), SerializedAtom("a2")>>}

\* RadixSerializer.fromJson of one transported atom: the atom is rebuilt from
\* the content, and its hid is the hash of that content
fromJson(serializedAtom) == Atom(serializedAtom.content)

\* deserializedAtom.hid.equals(RadixEUID.fromJson(serializedAtom.hid))
hidMatches(serializedAtom) == fromJson(serializedAtom).hid = serializedAtom.hid

\* ---- rxjs Subject / BehaviorSubject, as seen by an observer subscribed
\* ---- from the moment the subject was created
NewSubject == [isStopped |-> FALSE, delivered |-> <<>>]

NewBehaviorSubject(v) == [isStopped |-> FALSE, delivered |-> <<[type |-> "next", value |-> v]>>]

SubjectNext(s, v) ==
    IF s.isStopped THEN s
    ELSE [s EXCEPT !.delivered = Append(@, [type |-> "next", value |-> v])]

\* subscription.next({ action, atom }): the update is recorded by its action
\* and the hid of its atom
SubjectNextUpdate(s, action, atom) ==
    IF s.isStopped THEN s
    ELSE [s EXCEPT !.delivered = Append(@, [type |-> "next", value |-> action, atom |-> atom.hid])]

SubjectError(s, e) ==
    IF s.isStopped THEN s
    ELSE [isStopped |-> TRUE, delivered |-> Append(s.delivered, [type |-> "error", value |-> e])]

SubjectComplete(s) ==
    IF s.isStopped THEN s
    ELSE [isStopped |-> TRUE, delivered |-> Append(s.delivered, [type |-> "complete", value |-> ""])]

\* ---- the fields of a connection right after its constructor ran
ConnInitial ==
    [socket                |-> "none",     \* none, connecting, open, closing, closed
     pingInterval          |-> FALSE,
     subscriptions         |-> EmptyObj,   \* _subscriptions
     atomUpdateSubjects    |-> EmptyObj,   \* _atomUpdateSubjects
     addressSubscriptions  |-> EmptyObj,   \* _addressSubscriptions
     lastSubscriberId      |-> 1,
     numberOfSubscriptions |-> 1,
     timers                |-> <<>>,       \* pending 5 s setTimeout callbacks, in firing order
     calls                 |-> <<>>,       \* RPC calls whose promise has not settled
     unsubscribeAlls       |-> <<>>,       \* the Promise.all of each unsubscribeAll() call
     events                |-> <<>>]       \* 'open' / 'closed' events emitted

\* ---- helpers
RemoveAt(seq, i) == SubSeq(seq, 1, i - 1) \o SubSeq(seq, i + 1, Len(seq))

MapRemove(obj, k) == [x \in (DOMAIN obj) \ {k} |-> obj[x]]

\* this._socket.ready
isReady(c) == c.socket = "open"

\* this._socket.close(): the 'close' event follows later
SocketClose(c) ==
    IF c.socket \in {"connecting", "open"} THEN [c EXCEPT !.socket = "closing"] ELSE c

\* numberOfSubscriptions.next(v), with the subscriber the constructor installed:
\* a value <= 0 arms a timer that calls close().  cause names the statement
\* that emitted the value.
Emit(c, v, cause) ==
    [c EXCEPT !.numberOfSubscriptions = v,
              !.timers = IF v <= 0 THEN Append(@, [kind |-> "grace", id |-> 0, cause |-> cause])
                         ELSE @]

\* clearTimeout(timeout) of submitAtom
ClearSubmitTimer(c, id) ==
    [c EXCEPT !.timers = SelectSeq(@, LAMBDA t : ~(t.kind = "submit" /\ t.id = id))]

\* ---- openConnection
openConnection(c) ==
    [c EXCEPT !.socket = "connecting",
              !.timers = Append(@, [kind |-> "open", id |-> 0, cause |-> [op |-> "openConnection", id |-> 0]])]

\* the socket's 'open' handler
onOpen(c) ==
    [c EXCEPT !.socket = "open", !.pingInterval = TRUE, !.events = Append(@, "open")]

\* the 5 s timer of openConnection
onOpenTimeout(c) ==
    IF ~isReady(c) THEN [SocketClose(c) EXCEPT !.events = Append(@, "closed")] ELSE c

\* ---- subscribe, and the settling of its Atoms.subscribe call
subscribe(c, addr, first) ==
    LET subscriberId == c.lastSubscriberId + 1
    IN  [c EXCEPT !.lastSubscriberId = subscriberId,
                  !.addressSubscriptions = Put(@, addr, subscriberId),
                  !.subscriptions = Put(@, subscriberId, NewSubject),
                  !.calls = Append(@, [method |-> "Atoms.subscribe", subscriberId |-> subscriberId,
                                       address |-> addr, first |-> first, batch |-> 0])]

\* a settling that counts the bootstrap subscription as well
onSubscribeSettled_CountsFirst(c, call, ok) ==
    IF ok
    THEN Emit(c, c.numberOfSubscriptions + 1, [op |-> "subscribe", id |-> call.subscriberId])
    ELSE [c EXCEPT !.subscriptions[call.subscriberId] = SubjectError(@, CallError)]

onSubscribeSettled(c, call, ok) ==
    IF ok
    THEN IF ~call.first
         THEN Emit(c, c.numberOfSubscriptions + 1, [op |-> "subscribe", id |-> call.subscriberId])
         ELSE c
    ELSE [c EXCEPT !.subscriptions[call.subscriberId] = SubjectError(@, CallError)]

\* ---- unsubscribe, and the settling of its Atoms.cancel call.  batch is the
\* ---- unsubscribeAll() call that made the call, 0 for a direct unsubscribe.
unsubscribe(c, addr, batch) ==
    LET subscriberId == c.addressSubscriptions[addr]
    IN  [c EXCEPT !.calls = Append(@, [method |-> "Atoms.cancel", subscriberId |-> subscriberId,
                                       address |-> addr, first |-> FALSE, batch |-> batch])]

\* the reactions of Promise.all(unsubscriptions) to one settled unsubscribe
\* promise: the last fulfilment runs .then (numberOfSubscriptions.next(0)),
\* the first rejection rejects
onUnsubscribeAllElement(c, batch, ok) ==
    IF batch = 0 \/ c.unsubscribeAlls[batch].state # "pending" THEN c
    ELSE IF ~ok THEN [c EXCEPT !.unsubscribeAlls[batch].state = "rejected"]
    ELSE IF c.unsubscribeAlls[batch].remaining > 1
         THEN [c EXCEPT !.unsubscribeAlls[batch].remaining = @ - 1]
    ELSE Emit([c EXCEPT !.unsubscribeAlls[batch] = [remaining |-> 0, state |-> "resolved"]],
              0, [op |-> "unsubscribeAll", id |-> batch])

\* a settling that decrements in .then instead of .finally
onCancelSettled_DecrementsOnSuccess(c, call, ok) ==
    LET c1 == IF ok
              THEN [c EXCEPT !.subscriptions[call.subscriberId] = SubjectComplete(@),
                             !.addressSubscriptions = MapRemove(@, call.address)]
              ELSE c
        c2 == onUnsubscribeAllElement(c1, call.batch, ok)
    IN  IF ok
        THEN Emit(c2, c2.numberOfSubscriptions - 1, [op |-> "unsubscribe", id |-> call.subscriberId])
        ELSE c2

\* .then / .catch run first; resolve() queues the Promise.all reaction ahead
\* of the .finally callback, which therefore runs last
onCancelSettled(c, call, ok) ==
    LET c1 == IF ok
              THEN [c EXCEPT !.subscriptions[call.subscriberId] = SubjectComplete(@),
                             !.addressSubscriptions = MapRemove(@, call.address)]
              ELSE c
        c2 == onUnsubscribeAllElement(c1, call.batch, ok)
    IN  Emit(c2, c2.numberOfSubscriptions - 1, [op |-> "unsubscribe", id |-> call.subscriberId])

\* ---- unsubscribeAll
RECURSIVE UnsubscribeEach(_, _, _)
UnsubscribeEach(c, addrs, batch) ==
    IF addrs = {} THEN c
    ELSE LET a == CHOOSE x \in addrs : TRUE
         IN  UnsubscribeEach(unsubscribe(c, a, batch), addrs \ {a}, batch)

unsubscribeAll(c) ==
    LET batch == Len(c.unsubscribeAlls) + 1
        addrs == DOMAIN c.addressSubscriptions
        c1    == [c EXCEPT !.unsubscribeAlls =
                      Append(@, [remaining |-> Cardinality(addrs), state |-> "pending"])]
        c2    == UnsubscribeEach(c1, addrs, batch)
    IN  IF addrs = {}
        THEN Emit([c2 EXCEPT !.unsubscribeAlls[batch].state = "resolved"],
                  0, [op |-> "unsubscribeAll", id |-> batch])
        ELSE c2

\* ---- submitAtom, the settling of its call, and its 5 s timeout
submitAtom(c) ==
    LET subscriberId == c.lastSubscriberId + 1
    IN  [c EXCEPT !.lastSubscriberId = subscriberId,
                  !.atomUpdateSubjects = Put(@, subscriberId, NewBehaviorSubject("CREATED")),
                  !.timers = Append(@, [kind |-> "submit", id |-> subscriberId,
                                        cause |-> [op |-> "submitAtom", id |-> subscriberId]]),
                  !.calls = Append(@, [method |-> "Universe.submitAtomAndSubscribe",
                                       subscriberId |-> subscriberId,
                                       address |-> "", first |-> FALSE, batch |-> 0])]

onSubmitSettled_ClosesOnFailure(c, call, ok) ==
    LET id == call.subscriberId
        c1 == ClearSubmitTimer(c, id)
        c2 == IF ok
              THEN [c1 EXCEPT !.atomUpdateSubjects[id] = SubjectNext(@, "SUBMITTED")]
              ELSE [SocketClose(c1) EXCEPT !.atomUpdateSubjects[id] = SubjectError(@, CallError)]
    IN  Emit(c2, c2.numberOfSubscriptions + 1, [op |-> "submitAtom", id |-> id])

onSubmitSettled(c, call, ok) ==
    LET id == call.subscriberId
        c1 == ClearSubmitTimer(c, id)
        c2 == IF ok
              THEN [c1 EXCEPT !.atomUpdateSubjects[id] = SubjectNext(@, "SUBMITTED")]
              ELSE [c1 EXCEPT !.atomUpdateSubjects[id] = SubjectError(@, CallError)]
    IN  Emit(c2, c2.numberOfSubscriptions + 1, [op |-> "submitAtom", id |-> id])

onSubmitTimeout(c, id) ==
    [SocketClose(c) EXCEPT !.atomUpdateSubjects[id] = SubjectError(@, "Socket timeout")]

\* ---- close, and the socket's 'close' handler
close(c) == SocketClose(c)

onClosed_KeepsSubmissions(c) ==
    [c EXCEPT !.socket = "closed",
              !.pingInterval = FALSE,
              !.subscriptions = [id \in DOMAIN @ |-> SubjectError(@[id], "Socket closed")],
              !.events = Append(@, "closed")]

onClosed(c) ==
    [c EXCEPT !.socket = "closed",
              !.pingInterval = FALSE,
              !.subscriptions = [id \in DOMAIN @ |-> SubjectError(@[id], "Socket closed")],
              !.atomUpdateSubjects = [id \in DOMAIN @ |-> SubjectError(@[id], "Socket closed")],
              !.events = Append(@, "closed")]

\* ---- AtomSubmissionState.onNext
onAtomSubmissionStateUpdate_KeepsCount(c, n) ==
    LET id == n.subscriberId
    IN  IF n.value \in {"SUBMITTING", "SUBMITTED"}
        THEN [c EXCEPT !.atomUpdateSubjects[id] = SubjectNext(@, n.value)]
        ELSE IF n.value = "STORED"
        THEN [c EXCEPT !.atomUpdateSubjects[id] = SubjectComplete(SubjectNext(@, n.value))]
        ELSE IF n.value \in TerminalFailures
        THEN Emit([c EXCEPT !.atomUpdateSubjects[id] = SubjectError(@, FailureError(n.value, n.message))],
                  c.numberOfSubscriptions - 1, [op |-> "failure", id |-> id])
        ELSE c

onAtomSubmissionStateUpdate(c, n) ==
    LET id == n.subscriberId
    IN  IF n.value \in {"SUBMITTING", "SUBMITTED"}
        THEN [c EXCEPT !.atomUpdateSubjects[id] = SubjectNext(@, n.value)]
        ELSE IF n.value = "STORED"
        THEN Emit([c EXCEPT !.atomUpdateSubjects[id] = SubjectComplete(SubjectNext(@, n.value))],
                  c.numberOfSubscriptions - 1, [op |-> "STORED", id |-> id])
        ELSE IF n.value \in TerminalFailures
        THEN Emit([c EXCEPT !.atomUpdateSubjects[id] = SubjectError(@, FailureError(n.value, n.message))],
                  c.numberOfSubscriptions - 1, [op |-> "failure", id |-> id])
        ELSE c

\* ---- Atoms.subscribeUpdate.  The loop that compares the hids (lines 372-381)
\* ---- only writes to the log; every deserialized atom is forwarded.
RECURSIVE ForwardAtoms(_, _, _)
ForwardAtoms(subscription, atoms, i) ==
    IF i > Len(atoms) THEN subscription
    ELSE ForwardAtoms(SubjectNextUpdate(subscription, "STORE", fromJson(atoms[i])), atoms, i + 1)

\* a handler that forwards only the atoms whose hid matches
onAtomReceivedNotification_DropsMismatch(c, n) ==
    [c EXCEPT !.subscriptions[n.subscriberId] =
        ForwardAtoms(@, SelectSeq(n.atoms, hidMatches), 1)]

onAtomReceivedNotification(c, n) ==
    [c EXCEPT !.subscriptions[n.subscriberId] = ForwardAtoms(@, n.atoms, 1)]

\* ---- what the properties need to remember about a connection's past
AuditInitial ==
    [notified     |-> 0,          \* notifications pushed so far
     atomNotified |-> 0,          \* Atoms.subscribeUpdate notifications pushed so far
     lastAtoms    |-> [subscriberId |-> 0, atoms |-> <<>>],  \* the last one of them
     subscribes   |-> EmptyObj,   \* per subscribe call, see NewSubscribeAudit
     cancels      |-> <<>>,       \* per unsubscribe call, in call order, see NewCancelAudit
     called       |-> 0,          \* calls the application made so far
     closes       |-> <<>>,       \* per grace timer that called close(): what armed
                                  \* it (cause), and the refcount and the socket
                                  \* state when it fired
     idleCloses   |-> 0,          \* close() calls since the refcount last became 0
     submissions  |-> EmptyObj]   \* per submitAtom call, see NewSubmissionAudit

NewSubmissionAudit(c) ==
    [pre           |-> c.numberOfSubscriptions,  \* refcount when submitAtom was called
     settled       |-> "pending",                \* pending, ok, failed
     timedOut      |-> FALSE,
     notifications |-> <<>>,                     \* values pushed for it, in order
     increments    |-> 0,                        \* refcount increments it caused
     decrements    |-> 0,                        \* refcount decrements it caused
     settledAt     |-> 0,                        \* notifications received before its call settled
     socketAtFailure |-> "",                     \* socket state right after its call failed
     socketAtTimeout |-> ""]                     \* socket state right after its timeout fired

NewSubscribeAudit(addr, first) ==
    [address |-> addr, first |-> first,
     settled |-> "pending"]                      \* pending, ok, failed

\* call is the Atoms.cancel call an unsubscribe made, upTo the highest
\* subscriberId handed out before it
NewCancelAudit(call, upTo) ==
    [address |-> call.address, subscriberId |-> call.subscriberId,
     batch |-> call.batch, upTo |-> upTo,
     settled |-> "pending"]                      \* pending, ok, failed

\* ========================================================================
\* Cache account system (RadixCacheAccountSystem)
\* ========================================================================
\* before the constructor ran
CacheInitial ==
    [constructed |-> FALSE,
     atomCache   |-> FALSE,       \* whether this.atomCache is set
     stored      |-> {},          \* hids the cache provider holds
     last        |-> [op |-> "none", outcome |-> "none", atoms |-> {}]]

\* constructor(keyPair, atomCache?)
CacheConstructor(k, atomCache) ==
    [k EXCEPT !.constructed = TRUE, !.atomCache = atomCache]

\* processAtomUpdate
CacheProcessAtomUpdate(k, upd) ==
    IF ~k.atomCache
    THEN [k EXCEPT !.last = [op |-> upd.action, outcome |-> "resolved", atoms |-> {}]]
    ELSE IF upd.action = "STORE"
    THEN [k EXCEPT !.stored = @ \cup {upd.atom.hid},
                   !.last = [op |-> upd.action, outcome |-> "resolved", atoms |-> {}]]
    ELSE IF upd.action = "DELETE"
    THEN [k EXCEPT !.stored = @ \ {upd.atom.hid},
                   !.last = [op |-> upd.action, outcome |-> "resolved", atoms |-> {}]]
    ELSE [k EXCEPT !.last = [op |-> upd.action, outcome |-> "resolved", atoms |-> {}]]

\* loadAtoms: this.atomCache.getAtoms(...) with this.atomCache undefined throws
\* a TypeError, which rejects the promise of the async function
CacheLoadAtoms(k) ==
    IF ~k.atomCache
    THEN [k EXCEPT !.last = [op |-> "loadAtoms", outcome |-> "rejected: TypeError", atoms |-> {}]]
    ELSE [k EXCEPT !.last = [op |-> "loadAtoms", outcome |-> "resolved", atoms |-> k.stored]]

\* ------------------------------------------------------------------------
\* The state machine of the transfer account system
\* ------------------------------------------------------------------------
Init ==
    /\ transactions = <<>>
    /\ balance = EmptyObj
    /\ unspentConsumables = {}
    /\ spentConsumables = {}
    /\ emissions = <<>>
    /\ observers = <<>>
    /\ history = <<>>
    /\ conn = ConnInitial
    /\ audit = AuditInitial
    /\ cache = CacheInitial

\* account dispatch hands one update to processAtomUpdate; the handler runs to
\* completion, and each emission on transactionSubject reaches every observer
ProcessAtomUpdate ==
    \E upd \in AtomUpdates :
        /\ Len(history) < MaxUpdates
        /\ LET r == processAtomUpdate(State, upd)
           IN  /\ transactions' = r.state.transactions
               /\ balance' = r.state.balance
               /\ unspentConsumables' = r.state.unspentConsumables
               /\ spentConsumables' = r.state.spentConsumables
               /\ emissions' = emissions \o r.emits
               /\ observers' = [i \in 1..Len(observers) |->
                                  [observers[i] EXCEPT
                                      !.received = @ \o TransactionUpdates(r.emits)]]
        /\ history' = Append(history, [action |-> upd.action, hid |-> upd.atom.hid,
                                       pre |-> State, emitted |-> Len(emissions)])
        /\ UNCHANGED <<conn, audit, cache>>

\* an application subscribes to getAllTransactions().  known and attachedAt
\* record the transactions map and the number of transactionSubject emissions
\* at that moment.
SubscribeAllTransactions ==
    /\ Len(observers) < MaxObservers
    /\ observers' = Append(observers,
                           [received   |-> getAllTransactions(transactions),
                            known      |-> transactions,
                            attachedAt |-> Len(TransactionUpdates(emissions))])
    /\ UNCHANGED <<transactions, balance, unspentConsumables, spentConsumables,
                   emissions, history>>
    /\ UNCHANGED <<conn, audit, cache>>

Next == ProcessAtomUpdate \/ SubscribeAllTransactions

Spec == Init /\ [][Next]_vars

\* ------------------------------------------------------------------------
\* The state machine of the node connection.  One action is one task of the
\* event loop: an application call, a socket event, an RPC response with the
\* promise reactions it triggers, a pushed notification, or a timer callback.
\* ------------------------------------------------------------------------
\* bookkeeping common to the steps: close() calls while the refcount stays 0
AuditStep(c2, closed) ==
    [audit EXCEPT !.idleCloses =
        IF conn.numberOfSubscriptions = 0 /\ c2.numberOfSubscriptions = 0
        THEN @ + (IF closed THEN 1 ELSE 0)
        ELSE 0]

OpenConnection ==
    /\ conn.socket = "none"
    /\ conn' = openConnection(conn)
    /\ audit' = AuditStep(conn', FALSE)
    /\ UNCHANGED <<transferVars, cache>>

SocketOpens ==
    /\ conn.socket = "connecting"
    /\ conn' = onOpen(conn)
    /\ audit' = AuditStep(conn', FALSE)
    /\ UNCHANGED <<transferVars, cache>>

\* the remote end or the network drops the socket
TransportLost ==
    /\ conn.socket \in {"connecting", "open"}
    /\ conn' = onClosed(conn)
    /\ audit' = AuditStep(conn', FALSE)
    /\ UNCHANGED <<transferVars, cache>>

\* the 'close' event that follows this._socket.close()
SocketClosed ==
    /\ conn.socket = "closing"
    /\ conn' = onClosed(conn)
    /\ audit' = AuditStep(conn', FALSE)
    /\ UNCHANGED <<transferVars, cache>>

\* the timers all wait 5 s, so they fire in the order they were armed
OpenTimerFires ==
    /\ conn.timers # <<>>
    /\ Head(conn.timers).kind = "open"
    /\ conn' = onOpenTimeout([conn EXCEPT !.timers = Tail(@)])
    /\ audit' = AuditStep(conn', FALSE)
    /\ UNCHANGED <<transferVars, cache>>

GraceTimerFires ==
    /\ conn.timers # <<>>
    /\ Head(conn.timers).kind = "grace"
    /\ conn' = close([conn EXCEPT !.timers = Tail(@)])
    /\ audit' = [AuditStep(conn', TRUE) EXCEPT
                    !.closes = Append(@, [cause    |-> Head(conn.timers).cause,
                                          refcount |-> conn.numberOfSubscriptions,
                                          socket   |-> conn.socket])]
    /\ UNCHANGED <<transferVars, cache>>

SubmitTimerFires ==
    /\ conn.timers # <<>>
    /\ Head(conn.timers).kind = "submit"
    /\ LET id == Head(conn.timers).id
       IN  /\ conn' = onSubmitTimeout([conn EXCEPT !.timers = Tail(@)], id)
           /\ audit' = [AuditStep(conn', FALSE) EXCEPT
                           !.submissions[id].timedOut = TRUE,
                           !.submissions[id].socketAtTimeout = conn'.socket]
    /\ UNCHANGED <<transferVars, cache>>

\* the audit records of the Atoms.cancel calls a step from c to c2 made
NewCancels(c, c2) ==
    [k \in 1..(Len(c2.calls) - Len(c.calls)) |->
        NewCancelAudit(c2.calls[Len(c.calls) + k], c.lastSubscriberId)]

\* the position in audit.cancels of the pending call conn.calls[i]: pending
\* calls are kept in the order they were made
RECURSIVE NthPending(_, _)
NthPending(n, r) ==
    IF audit.cancels[n].settled = "pending"
    THEN IF r = 1 THEN n ELSE NthPending(n + 1, r - 1)
    ELSE NthPending(n + 1, r)

CancelAuditIndex(i) ==
    NthPending(1, Cardinality({j \in 1..i : conn.calls[j].method = "Atoms.cancel"}))

\* the application uses the connection once openConnection() has resolved
CanCall ==
    /\ \E i \in 1..Len(conn.events) : conn.events[i] = "open"
    /\ audit.called < MaxCalls

Subscribe ==
    \E addr \in ConnAddresses, first \in BOOLEAN :
        /\ CanCall
        /\ conn.lastSubscriberId < MaxSubscriberId
        /\ conn' = subscribe(conn, addr, first)
        /\ audit' = [AuditStep(conn', FALSE) EXCEPT
                        !.called = @ + 1,
                        !.subscribes = Put(@, conn'.lastSubscriberId, NewSubscribeAudit(addr, first))]
        /\ UNCHANGED <<transferVars, cache>>

Unsubscribe ==
    \E addr \in DOMAIN conn.addressSubscriptions :
        /\ CanCall
        /\ conn' = unsubscribe(conn, addr, 0)
        /\ audit' = [AuditStep(conn', FALSE) EXCEPT
                        !.called = @ + 1,
                        !.cancels = @ \o NewCancels(conn, conn')]
        /\ UNCHANGED <<transferVars, cache>>

UnsubscribeAll ==
    /\ CanCall
    /\ Len(conn.unsubscribeAlls) < MaxUnsubscribeAlls
    /\ conn' = unsubscribeAll(conn)
    /\ audit' = [AuditStep(conn', FALSE) EXCEPT
                    !.called = @ + 1,
                    !.cancels = @ \o NewCancels(conn, conn')]
    /\ UNCHANGED <<transferVars, cache>>

SubmitAtom ==
    /\ CanCall
    /\ conn.lastSubscriberId < MaxSubscriberId
    /\ conn' = submitAtom(conn)
    /\ audit' = [AuditStep(conn', FALSE) EXCEPT
                    !.called = @ + 1,
                    !.submissions = Put(@, conn'.lastSubscriberId, NewSubmissionAudit(conn))]
    /\ UNCHANGED <<transferVars, cache>>

\* a response can only arrive over a socket that is still up; a call can fail
\* at any time
CanSettle(ok) == ok => conn.socket \in {"open", "closing"}

SubscribeSettles ==
    \E i \in 1..Len(conn.calls), ok \in BOOLEAN :
        /\ conn.calls[i].method = "Atoms.subscribe"
        /\ CanSettle(ok)
        /\ conn' = onSubscribeSettled([conn EXCEPT !.calls = RemoveAt(@, i)], conn.calls[i], ok)
        /\ audit' = [AuditStep(conn', FALSE) EXCEPT
                        !.subscribes[conn.calls[i].subscriberId].settled =
                            IF ok THEN "ok" ELSE "failed"]
        /\ UNCHANGED <<transferVars, cache>>

CancelSettles ==
    \E i \in 1..Len(conn.calls), ok \in BOOLEAN :
        /\ conn.calls[i].method = "Atoms.cancel"
        /\ CanSettle(ok)
        /\ conn' = onCancelSettled([conn EXCEPT !.calls = RemoveAt(@, i)], conn.calls[i], ok)
        /\ audit' = [AuditStep(conn', FALSE) EXCEPT
                        !.cancels[CancelAuditIndex(i)].settled = IF ok THEN "ok" ELSE "failed"]
        /\ UNCHANGED <<transferVars, cache>>

SubmitSettles ==
    \E i \in 1..Len(conn.calls), ok \in BOOLEAN :
        /\ conn.calls[i].method = "Universe.submitAtomAndSubscribe"
        /\ CanSettle(ok)
        /\ LET id == conn.calls[i].subscriberId
           IN  /\ conn' = onSubmitSettled([conn EXCEPT !.calls = RemoveAt(@, i)], conn.calls[i], ok)
               /\ audit' = [AuditStep(conn', FALSE) EXCEPT
                               !.submissions[id].settled = IF ok THEN "ok" ELSE "failed",
                               !.submissions[id].settledAt = Len(audit.submissions[id].notifications),
                               !.submissions[id].socketAtFailure = IF ok THEN @ ELSE conn'.socket,
                               !.submissions[id].increments =
                                   @ + conn'.numberOfSubscriptions - conn.numberOfSubscriptions]
        /\ UNCHANGED <<transferVars, cache>>

\* the node pushes AtomSubmissionState.onNext for a submission it was sent
SubmissionStateNotification ==
    \E id \in DOMAIN conn.atomUpdateSubjects, value \in PushedValues :
        /\ conn.socket \in {"open", "closing"}
        /\ audit.notified < MaxNotifications
        /\ conn' = onAtomSubmissionStateUpdate(conn,
                      [subscriberId |-> id, value |-> value, message |-> NotificationMessage])
        /\ audit' = [AuditStep(conn', FALSE) EXCEPT
                        !.notified = @ + 1,
                        !.submissions[id].notifications = Append(@, value),
                        !.submissions[id].decrements =
                            @ + conn.numberOfSubscriptions - conn'.numberOfSubscriptions]
        /\ UNCHANGED <<transferVars, cache>>

ConnNext ==
    \/ OpenConnection \/ SocketOpens \/ TransportLost \/ SocketClosed
    \/ OpenTimerFires \/ GraceTimerFires \/ SubmitTimerFires
    \/ Subscribe \/ Unsubscribe \/ UnsubscribeAll \/ SubmitAtom
    \/ SubscribeSettles \/ CancelSettles \/ SubmitSettles
    \/ SubmissionStateNotification

ConnSpec == Init /\ [][ConnNext]_vars

\* ------------------------------------------------------------------------
\* The subscription workload of the node connection: the application only
\* subscribes and unsubscribes, and the node pushes atoms.
\* ------------------------------------------------------------------------
CanCallSubs ==
    /\ \E i \in 1..Len(conn.events) : conn.events[i] = "open"
    /\ audit.called < MaxSubsCalls

SubsSubscribe ==
    \E addr \in ConnAddresses, first \in BOOLEAN :
        /\ CanCallSubs
        /\ conn.lastSubscriberId < MaxSubscriberId
        /\ conn' = subscribe(conn, addr, first)
        /\ audit' = [AuditStep(conn', FALSE) EXCEPT
                        !.called = @ + 1,
                        !.subscribes = Put(@, conn'.lastSubscriberId, NewSubscribeAudit(addr, first))]
        /\ UNCHANGED <<transferVars, cache>>

SubsUnsubscribe ==
    \E addr \in DOMAIN conn.addressSubscriptions :
        /\ CanCallSubs
        /\ conn' = unsubscribe(conn, addr, 0)
        /\ audit' = [AuditStep(conn', FALSE) EXCEPT
                        !.called = @ + 1,
                        !.cancels = @ \o NewCancels(conn, conn')]
        /\ UNCHANGED <<transferVars, cache>>

SubsUnsubscribeAll ==
    /\ CanCallSubs
    /\ Len(conn.unsubscribeAlls) < MaxUnsubscribeAlls
    /\ conn' = unsubscribeAll(conn)
    /\ audit' = [AuditStep(conn', FALSE) EXCEPT
                    !.called = @ + 1,
                    !.cancels = @ \o NewCancels(conn, conn')]
    /\ UNCHANGED <<transferVars, cache>>

\* the node pushes Atoms.subscribeUpdate for a subscription it was sent
AtomsNotification ==
    \E id \in DOMAIN conn.subscriptions, atoms \in Payloads :
        /\ conn.socket \in {"open", "closing"}
        /\ audit.atomNotified < MaxAtomNotifications
        /\ conn' = onAtomReceivedNotification(conn, [subscriberId |-> id, atoms |-> atoms])
        /\ audit' = [AuditStep(conn', FALSE) EXCEPT
                        !.atomNotified = @ + 1,
                        !.lastAtoms = [subscriberId |-> id, atoms |-> atoms]]
        /\ UNCHANGED <<transferVars, cache>>

SubsNext ==
    \/ OpenConnection \/ SocketOpens \/ TransportLost \/ SocketClosed
    \/ OpenTimerFires \/ GraceTimerFires
    \/ SubsSubscribe \/ SubsUnsubscribe \/ SubsUnsubscribeAll
    \/ SubscribeSettles \/ CancelSettles
    \/ AtomsNotification

SubsSpec == Init /\ [][SubsNext]_vars

\* ------------------------------------------------------------------------
\* The state machine of the cache account system
\* ------------------------------------------------------------------------
CacheConstruct ==
    \E atomCache \in BOOLEAN :
        /\ ~cache.constructed
        /\ cache' = CacheConstructor(cache, atomCache)
        /\ UNCHANGED <<transferVars, conn, audit>>

CacheProcess ==
    \E upd \in AtomUpdates :
        /\ cache.constructed
        /\ cache' = CacheProcessAtomUpdate(cache, upd)
        /\ UNCHANGED <<transferVars, conn, audit>>

CacheLoad ==
    /\ cache.constructed
    /\ cache' = CacheLoadAtoms(cache)
    /\ UNCHANGED <<transferVars, conn, audit>>

CacheNext == CacheConstruct \/ CacheProcess \/ CacheLoad

CacheSpec == Init /\ [][CacheNext]_vars

\* ------------------------------------------------------------------------
\* Vocabulary of the properties
\* ------------------------------------------------------------------------
Updates == 1..Len(history)

\* the state, and the number of emissions, right after update i was processed
Post(i) == IF i = Len(history) THEN State ELSE history[i + 1].pre
PostEmitted(i) == IF i = Len(history) THEN Len(emissions) ELSE history[i + 1].emitted

\* what update i emitted
EmittedBy(i) == SubSeq(emissions, history[i].emitted + 1, PostEmitted(i))

IsNewStore(i) ==
    /\ history[i].action = "STORE"
    /\ containsParticle(Atom(history[i].hid))
    /\ ~Has(history[i].pre.transactions, history[i].hid)

IsStoredDelete(i) ==
    /\ history[i].action = "DELETE"
    /\ containsParticle(Atom(history[i].hid))
    /\ Has(history[i].pre.transactions, history[i].hid)

SameConsumablesAndBalance(s, t) ==
    /\ s.unspentConsumables = t.unspentConsumables
    /\ s.spentConsumables = t.spentConsumables
    /\ \A k \in TokenClasses : Get(s.balance, k) = Get(t.balance, k)

RECURSIVE SumAmounts(_)
SumAmounts(ids) ==
    IF ids = {} THEN 0
    ELSE LET id == CHOOSE x \in ids : TRUE
         IN  Particle(id).amount + SumAmounts(ids \ {id})

RECURSIVE SumTransactions(_, _)
SumTransactions(txs, k) ==
    IF txs = <<>> THEN 0
    ELSE Get(Head(txs).balance, k) + SumTransactions(Tail(txs), k)

\* sum of the amounts of the owned non-fee particles of token k with the given spin
RECURSIVE OwnedAmount(_, _, _)
OwnedAmount(particles, spin, k) ==
    IF particles = <<>> THEN 0
    ELSE LET c == Head(particles)
             counts == /\ c.spin = spin
                       /\ c.particle.kind = "tokens"
                       /\ c.particle.address = address
                       /\ c.particle.token = k
         IN  (IF counts THEN c.particle.amount ELSE 0)
             + OwnedAmount(Tail(particles), spin, k)

\* ------------------------------------------------------------------------
\* Properties
\* ------------------------------------------------------------------------

\* C1: for every atom whose hid is not yet stored, STORE(atom) immediately
\* followed by DELETE(atom) leaves unspentConsumables, spentConsumables and
\* the per-token balance as they were just before the STORE.
C1_StoreThenDeleteRestores ==
    \A i \in Updates :
        (/\ i < Len(history)
         /\ history[i].action = "STORE"
         /\ ~Has(history[i].pre.transactions, history[i].hid)
         /\ history[i + 1].action = "DELETE"
         /\ history[i + 1].hid = history[i].hid)
        => SameConsumablesAndBalance(Post(i + 1), history[i].pre)

\* every atom that occurs in the history occurs twice: a STORE, and later a DELETE
StoredOnceThenDeletedOnce ==
    \A h \in Hids :
        LET occ == {i \in Updates : history[i].hid = h}
        IN  \/ occ = {}
            \/ \E i, j \in occ : /\ occ = {i, j}
                                 /\ i < j
                                 /\ history[i].action = "STORE"
                                 /\ history[j].action = "DELETE"

\* C2: from the empty state, after any update sequence in which every atom is
\* STOREd once and later DELETEd once, balance, unspentConsumables and
\* spentConsumables equal the empty initial state.
C2_PairedUpdatesReturnToEmpty ==
    StoredOnceThenDeletedOnce =>
        /\ unspentConsumables = {}
        /\ spentConsumables = {}
        /\ \A k \in TokenClasses : Get(balance, k) = 0

\* C3: in every reachable state, balance[k] is the sum of the amounts of the
\* particles of token k in unspentConsumables.
C3_BalanceIsSumOfUnspent ==
    \A k \in TokenClasses :
        Get(balance, k) = SumAmounts({id \in unspentConsumables : Particle(id).token = k})

\* C4: in every reachable state, balance[k] is the sum of t.balance[k] over the
\* transactions held in the transactions map.
C4_BalanceIsSumOfTransactions ==
    \A k \in TokenClasses : Get(balance, k) = SumTransactions(transactions, k)

\* C5: in every reachable state no particle id is in both unspentConsumables
\* and spentConsumables.
C5_UnspentSpentDisjoint == unspentConsumables \cap spentConsumables = {}

\* a new atom was stored that carries the UP spin of an owned particle which
\* was already in spentConsumables (out of order, or both spins in the atom)
C5_Witness ==
    \E i \in Updates :
        /\ IsNewStore(i)
        /\ \E j \in 1..Len(Atom(history[i].hid).particles) :
              LET c == Atom(history[i].hid).particles[j]
              IN  /\ c.spin = UP
                  /\ c.particle.kind = "tokens"
                  /\ c.particle.address = address
                  /\ \/ c.particle._id \in history[i].pre.spentConsumables
                     \/ \E j2 \in 1..(j - 1) :
                           /\ Atom(history[i].hid).particles[j2].spin = DOWN
                           /\ Atom(history[i].hid).particles[j2].particle._id = c.particle._id

\* C6: a STORE of an atom whose hid is already in transactions leaves
\* transactions, balance, unspentConsumables and spentConsumables unchanged and
\* emits nothing on the balance subject or the transaction subject.
C6_RestoreIsIdempotent ==
    \A i \in Updates :
        (history[i].action = "STORE" /\ Has(history[i].pre.transactions, history[i].hid))
        => /\ Post(i) = history[i].pre
           /\ EmittedBy(i) = <<>>

C6_Witness ==
    \E i \in Updates :
        /\ history[i].action = "STORE"
        /\ Has(history[i].pre.transactions, history[i].hid)
        /\ Len(TransactionUpdates(emissions)) = 1

\* C7: a DELETE of an atom whose hid is not in transactions leaves
\* transactions, balance, unspentConsumables and spentConsumables unchanged and
\* emits no event.
C7_OrphanDeleteIsNoOp ==
    \A i \in Updates :
        (history[i].action = "DELETE" /\ ~Has(history[i].pre.transactions, history[i].hid))
        => /\ Post(i) = history[i].pre
           /\ EmittedBy(i) = <<>>

C7_Witness ==
    \E i \in Updates :
        /\ history[i].action = "DELETE"
        /\ containsParticle(Atom(history[i].hid))
        /\ ~Has(history[i].pre.transactions, history[i].hid)
        /\ history[i].pre.transactions # <<>>
        /\ history[i].pre.unspentConsumables # {}

\* C8: when a not-yet-stored atom is STOREd, the recorded transaction's
\* balance[k] is the sum of the atom's owned non-fee UP amounts of token k minus
\* the sum of its owned non-fee DOWN amounts of token k, and the account
\* balance[k] changes by exactly that value.
C8_TransactionBalanceIsNetAmount ==
    \A i \in Updates :
        IsNewStore(i) =>
            LET particles == Atom(history[i].hid).particles
                t == TxGet(Post(i).transactions, history[i].hid)
            IN  \A k \in TokenClasses :
                    LET net == OwnedAmount(particles, UP, k) - OwnedAmount(particles, DOWN, k)
                    IN  /\ Get(t.balance, k) = net
                        /\ Get(Post(i).balance, k) - Get(history[i].pre.balance, k) = net

\* C9: for every applied update (a STORE of a new hid, a DELETE of a stored
\* hid) the balance subject emits the updated balance, then the transaction
\* subject emits the update's transaction event, and at both emissions the
\* sets, the transactions map and the balance are already those of the fully
\* processed atom.
C9_BalanceEmittedBeforeTransaction ==
    \A i \in Updates :
        (IsNewStore(i) \/ IsStoredDelete(i)) =>
            LET ems == EmittedBy(i)
            IN  /\ Len(ems) = 2
                /\ ems[1].subject = "balance"
                /\ ems[1].balance = Post(i).balance
                /\ ems[1].seen = Post(i)
                /\ ems[2].subject = "transaction"
                /\ ems[2].update.action = history[i].action
                /\ ems[2].update.hid = history[i].hid
                /\ ems[2].seen = Post(i)

C9_Witness ==
    /\ \E i \in Updates : IsNewStore(i) /\ Post(i).balance # history[i].pre.balance
    /\ \E i \in Updates : IsStoredDelete(i) /\ Post(i).balance # history[i].pre.balance

\* C10: an observer of getAllTransactions() first receives one STORE event for
\* every transaction that was in the transactions map when it subscribed, and
\* then every event the transaction subject emitted afterwards, in emission
\* order, none missing and no stored transaction replayed twice.
C10_ObserverGetsHistoryThenLive ==
    \A o \in 1..Len(observers) :
        LET ob     == observers[o]
            n      == Len(ob.known)
            all    == TransactionUpdates(emissions)
        IN  /\ Len(ob.received) >= n
            /\ \A j \in 1..n : /\ ob.received[j].action = "STORE"
                               /\ Has(ob.known, ob.received[j].hid)
                               /\ ob.received[j].transaction = TxGet(ob.known, ob.received[j].hid)
            /\ \A j \in 1..Len(ob.known) :
                  Cardinality({x \in 1..n : ob.received[x].hid = ob.known[j].hid}) = 1
            /\ SubSeq(ob.received, n + 1, Len(ob.received))
                  = SubSeq(all, ob.attachedAt + 1, Len(all))

C10_Witness ==
    \E o \in 1..Len(observers) :
        /\ Len(observers[o].known) >= 2
        /\ Len(observers[o].received) > Len(observers[o].known)
        /\ observers[o].known # transactions

\* the token-bearing particles of an atom (fee particles included)
TokenBearing(atom) ==
    {j \in 1..Len(atom.particles) : atom.particles[j].particle.kind \in {"tokens", "fee"}}

\* C20: for every STOREd atom, the account balance is unaffected when none of
\* the atom's token-bearing particles is owned by the account, and the
\* recorded transaction's participants are exactly the addresses of the atom's
\* non-owned, non-fee token-bearing particles.
C20_ForeignAtomsOnlyAddParticipants ==
    \A i \in Updates :
        IsNewStore(i) =>
            LET atom == Atom(history[i].hid)
                t    == TxGet(Post(i).transactions, history[i].hid)
            IN  /\ (\A j \in TokenBearing(atom) : atom.particles[j].particle.address # address)
                      => \A k \in TokenClasses :
                            Get(Post(i).balance, k) = Get(history[i].pre.balance, k)
                /\ t.participants =
                      {atom.particles[j].particle.address :
                          j \in {x \in TokenBearing(atom) :
                                    /\ atom.particles[x].particle.kind # "fee"
                                    /\ atom.particles[x].particle.address # address}}

\* an atom none of whose token-bearing particles is owned (it has a fee
\* particle and two foreign owners) was stored on top of a non-zero balance
C20_Witness ==
    \E i \in Updates :
        /\ IsNewStore(i)
        /\ \A j \in TokenBearing(Atom(history[i].hid)) :
              Atom(history[i].hid).particles[j].particle.address # address
        /\ \E j \in TokenBearing(Atom(history[i].hid)) :
              Atom(history[i].hid).particles[j].particle.kind = "fee"
        /\ Cardinality(TxGet(Post(i).transactions, history[i].hid).participants) = 2
        /\ history[i].pre.balance # EmptyObj

\* C25: an update (STORE or DELETE) whose atom contains no token-bearing
\* particle leaves transactions, balance, unspentConsumables and
\* spentConsumables unchanged and emits nothing on either subject.
C25_NoTokenParticleIsIgnored ==
    \A i \in Updates :
        ~containsParticle(Atom(history[i].hid)) =>
            /\ Post(i) = history[i].pre
            /\ EmittedBy(i) = <<>>

\* a STORE and a DELETE of an atom without token-bearing particle were handed
\* to a system that holds transactions and consumables
C25_Witness ==
    \E i, j \in Updates :
        /\ ~containsParticle(Atom(history[i].hid))
        /\ ~containsParticle(Atom(history[j].hid))
        /\ history[i].action = "STORE"
        /\ history[j].action = "DELETE"
        /\ history[i].pre.transactions # <<>>
        /\ history[j].pre.unspentConsumables # {}

\* the hids whose last update in the history is a STORE
LastStored ==
    {h \in Hids :
        \E i \in Updates :
            /\ history[i].hid = h
            /\ history[i].action = "STORE"
            /\ \A j \in Updates : (j > i /\ history[j].hid = h) => history[j].action = "STORE"}

\* C26: the key set of the transactions map is exactly the set of hids of
\* token-bearing atoms that were STOREd and not DELETEd since their last
\* STORE, and each such hid maps to one transaction, whose hid is its key.
C26_TransactionsAreTheStoredAtoms ==
    /\ {transactions[i].hid : i \in 1..Len(transactions)} =
           {h \in LastStored : containsParticle(Atom(h))}
    /\ \A i, j \in 1..Len(transactions) :
           transactions[i].hid = transactions[j].hid => i = j

\* an atom was stored, deleted and stored again, and an atom without
\* token-bearing particle was stored
C26_Witness ==
    /\ \E i, j, k \in Updates :
          /\ i < j /\ j < k
          /\ history[i].hid = history[j].hid /\ history[j].hid = history[k].hid
          /\ IsNewStore(i) /\ IsStoredDelete(j) /\ IsNewStore(k)
          /\ Has(transactions, history[k].hid)
    /\ \E i \in Updates :
          /\ history[i].action = "STORE"
          /\ ~containsParticle(Atom(history[i].hid))
          /\ ~Has(transactions, history[i].hid)

\* the state after STORE(h1) then STORE(h2), processed from state s
StoreBoth(s, h1, h2) ==
    processAtomUpdate(processAtomUpdate(s, AtomUpdate("STORE", h1)).state,
                      AtomUpdate("STORE", h2)).state

\* C27: STORE is order-independent: whenever two distinct atoms were STOREd
\* one after the other, processing them in the other order from the same
\* state ends with the same balance, the same unspentConsumables and the
\* same spentConsumables.
C27_StoreIsOrderIndependent ==
    \A i \in Updates :
        (/\ i < Len(history)
         /\ history[i].action = "STORE"
         /\ history[i + 1].action = "STORE"
         /\ history[i].hid # history[i + 1].hid)
        => /\ Post(i + 1) = StoreBoth(history[i].pre, history[i].hid, history[i + 1].hid)
           /\ SameConsumablesAndBalance(
                  Post(i + 1),
                  StoreBoth(history[i].pre, history[i + 1].hid, history[i].hid))

\* the atom that spends a particle was stored right before the atom that
\* creates it, and the two in the other order in another part of the history
C27_Witness ==
    \E i \in Updates :
        /\ i < Len(history)
        /\ IsNewStore(i) /\ IsNewStore(i + 1)
        /\ \E x \in 1..Len(Atom(history[i].hid).particles),
              y \in 1..Len(Atom(history[i + 1].hid).particles) :
              /\ Atom(history[i].hid).particles[x].spin = DOWN
              /\ Atom(history[i + 1].hid).particles[y].spin = UP
              /\ Atom(history[i].hid).particles[x].particle._id =
                    Atom(history[i + 1].hid).particles[y].particle._id
              /\ Atom(history[i].hid).particles[x].particle.address = address
        /\ Post(i + 1).spentConsumables # {}
        /\ history[i].pre.transactions # <<>>

\* ------------------------------------------------------------------------
\* Properties of the node connection
\* ------------------------------------------------------------------------
Submissions == DOMAIN audit.submissions

IsTerminal(value) == value = "STORED" \/ value \in TerminalFailures

Next_(v) == [type |-> "next", value |-> v]
Error_(e) == [type |-> "error", value |-> e]
Complete_ == [type |-> "complete", value |-> ""]

\* C11: the refcount (numberOfSubscriptions) is >= 0 in every reachable state.
C11_RefcountNonNegative == conn.numberOfSubscriptions >= 0

\* C12: when the refcount dropped to 0 and is positive again when the grace
\* timer expires, that timer does not call close(): every close() made by a
\* grace timer happened at a refcount <= 0.
C12_ReactivationCancelsClose ==
    \A i \in 1..Len(audit.closes) : audit.closes[i].refcount <= 0

\* C13: while the refcount stays at 0, close() is called at most once by the
\* grace timers (exactly once for the idle period, never a second time).
C13_OneClosePerIdlePeriod == audit.idleCloses <= 1

\* C14: over a submission's lifetime its notifications decrement the refcount
\* exactly once, at its terminal state, however many notifications arrive;
\* non-terminal notifications leave the refcount unchanged.
C14_TerminalDecrementsOnce ==
    \A id \in Submissions :
        audit.submissions[id].decrements =
            IF \E j \in 1..Len(audit.submissions[id].notifications) :
                   IsTerminal(audit.submissions[id].notifications[j])
            THEN 1 ELSE 0

\* C15: a submission whose call succeeds (before its timeout) and for which
\* the node then pushes SUBMITTING and STORED delivers CREATED, SUBMITTED,
\* SUBMITTING, STORED in that order and completes, and its net effect on the
\* refcount is zero.
C15_HappyPathSubmission ==
    \A id \in Submissions :
        LET a == audit.submissions[id]
        IN  (/\ a.settled = "ok"
             /\ ~a.timedOut
             /\ a.settledAt = 0
             /\ a.notifications = <<"SUBMITTING", "STORED">>)
            => /\ SubSeq(conn.atomUpdateSubjects[id].delivered, 1, 5) =
                    <<Next_("CREATED"), Next_("SUBMITTED"), Next_("SUBMITTING"),
                      Next_("STORED"), Complete_>>
               /\ Len(conn.atomUpdateSubjects[id].delivered) = 5
               /\ a.increments - a.decrements = 0

\* the happy path ran to its end while another stream was live on the connection
C15_Witness ==
    \E id \in Submissions :
        /\ audit.submissions[id].settled = "ok"
        /\ ~audit.submissions[id].timedOut
        /\ audit.submissions[id].settledAt = 0
        /\ audit.submissions[id].notifications = <<"SUBMITTING", "STORED">>
        /\ conn.numberOfSubscriptions = audit.submissions[id].pre
        /\ conn.subscriptions # EmptyObj

\* C16, as claimed: when the call fails, and when it does not settle before
\* the timeout, the stream errors and the socket is closed; when it succeeds
\* the stream advances to SUBMITTED; the refcount is incremented when the call
\* settles.
C16_FailureOrTimeoutClosesSocket ==
    \A id \in Submissions :
        LET a == audit.submissions[id]
            s == conn.atomUpdateSubjects[id]
        IN  /\ a.settled = "failed" => s.isStopped /\ a.socketAtFailure \in {"closing", "closed"}
            /\ a.timedOut => s.isStopped /\ a.socketAtTimeout \in {"closing", "closed"}
            /\ (a.settled = "ok" /\ ~a.timedOut /\ a.settledAt = 0)
                  => s.delivered[2] = Next_("SUBMITTED")
            /\ a.increments = (IF a.settled = "pending" THEN 0 ELSE 1)

\* the step in which the call of submission id settles / its timeout fires
SettlesIn(id) ==
    /\ id \in Submissions
    /\ audit.submissions[id].settled = "pending"
    /\ audit'.submissions[id].settled # "pending"

TimesOutIn(id) ==
    /\ id \in Submissions
    /\ ~audit.submissions[id].timedOut
    /\ audit'.submissions[id].timedOut

\* C16, amended: the timeout closes the socket and errors the stream; a failed
\* call errors the stream and leaves the socket as it is; a successful call
\* advances the stream to SUBMITTED; a stream that had already terminated
\* stays as it was; the refcount is incremented by 1 when the call settles,
\* and not by the timeout.
C16_SubmitOutcomes ==
    [][\A id \in DOMAIN conn.atomUpdateSubjects :
          LET s  == conn.atomUpdateSubjects[id]
              s2 == conn'.atomUpdateSubjects[id]
          IN  /\ SettlesIn(id) =>
                    /\ conn'.numberOfSubscriptions = conn.numberOfSubscriptions + 1
                    /\ conn'.socket = conn.socket
                    /\ s.isStopped => s2 = s
                    /\ (~s.isStopped /\ audit'.submissions[id].settled = "ok")
                          => s2 = [s EXCEPT !.delivered = Append(@, Next_("SUBMITTED"))]
                    /\ (~s.isStopped /\ audit'.submissions[id].settled = "failed")
                          => s2 = [isStopped |-> TRUE,
                                   delivered |-> Append(s.delivered, Error_(CallError))]
              /\ TimesOutIn(id) =>
                    /\ conn'.numberOfSubscriptions = conn.numberOfSubscriptions
                    /\ conn'.socket \in {"closing", "closed"}
                    /\ s.isStopped => s2 = s
                    /\ ~s.isStopped
                          => s2 = [isStopped |-> TRUE,
                                   delivered |-> Append(s.delivered, Error_("Socket timeout"))]
      ]_vars

\* one call failed on an open socket, which stayed open, and one submission
\* timed out
C16_Witness ==
    /\ \E id \in Submissions :
          /\ audit.submissions[id].settled = "failed"
          /\ audit.submissions[id].socketAtFailure = "open"
          /\ conn.atomUpdateSubjects[id].delivered = <<Next_("CREATED"), Error_(CallError)>>
    /\ \E id \in Submissions :
          /\ audit.submissions[id].timedOut
          /\ conn.atomUpdateSubjects[id].delivered = <<Next_("CREATED"), Error_("Socket timeout")>>

\* C17: when the socket closes, every subscription stream and every submission
\* stream that has not yet completed or errored is terminated with the error
\* 'Socket closed', the others are left as they are, the keepalive interval is
\* cleared and a 'closed' event is emitted: no stream is open after the close.
C17_CloseTerminatesEveryStream ==
    [][(conn.socket # "closed" /\ conn'.socket = "closed") =>
          /\ \A id \in DOMAIN conn.subscriptions :
                LET s == conn.subscriptions[id]
                IN  conn'.subscriptions[id] =
                        IF s.isStopped THEN s
                        ELSE [isStopped |-> TRUE,
                              delivered |-> Append(s.delivered, Error_("Socket closed"))]
          /\ \A id \in DOMAIN conn.atomUpdateSubjects :
                LET s == conn.atomUpdateSubjects[id]
                IN  conn'.atomUpdateSubjects[id] =
                        IF s.isStopped THEN s
                        ELSE [isStopped |-> TRUE,
                              delivered |-> Append(s.delivered, Error_("Socket closed"))]
          /\ \A id \in DOMAIN conn'.subscriptions : conn'.subscriptions[id].isStopped
          /\ \A id \in DOMAIN conn'.atomUpdateSubjects : conn'.atomUpdateSubjects[id].isStopped
          /\ ~conn'.pingInterval
          /\ conn'.events = Append(conn.events, "closed")
      ]_vars

\* the socket closed under an open subscription stream and an open submission
\* stream, after the keepalive had been installed
C17_Witness ==
    /\ conn.socket = "closed"
    /\ "open" \in {conn.events[i] : i \in 1..Len(conn.events)}
    /\ \E id \in DOMAIN conn.subscriptions :
          conn.subscriptions[id].delivered = <<Error_("Socket closed")>>
    /\ \E id \in DOMAIN conn.atomUpdateSubjects :
          conn.atomUpdateSubjects[id].delivered = <<Next_("CREATED"), Error_("Socket closed")>>

\* C18: a terminal failure of one submission errors only that submission's
\* stream and does not make the connection close: no grace timer that the
\* failure armed calls close() on the open socket.
C18_FailureDoesNotCloseConnection ==
    \A i \in 1..Len(audit.closes) :
        ~(audit.closes[i].cause.op = "failure" /\ audit.closes[i].socket = "open")

\* the step in which subscribe hands out subscriberId id / in which the
\* Atoms.subscribe call of id settles
SubscribeCalledIn(id) ==
    /\ id \notin DOMAIN audit.subscribes
    /\ id \in DOMAIN audit'.subscribes

SubscribeSettlesIn(id) ==
    /\ id \in DOMAIN audit.subscribes
    /\ audit.subscribes[id].settled = "pending"
    /\ audit'.subscribes[id].settled # "pending"

\* C21: subscribe allocates a fresh subscriberId and binds the address to it;
\* when the Atoms.subscribe call succeeds the refcount increases by exactly 1
\* if first is not true and is unchanged if first is true; when the call
\* fails the returned stream errors and the refcount is unchanged.
C21_SubscribeOutcomes ==
    [][\A id \in DOMAIN audit'.subscribes :
          /\ SubscribeCalledIn(id) =>
                /\ id > conn.lastSubscriberId
                /\ id \notin (DOMAIN conn.subscriptions) \cup (DOMAIN conn.atomUpdateSubjects)
                /\ conn'.addressSubscriptions[audit'.subscribes[id].address] = id
                /\ conn'.subscriptions[id] = NewSubject
                /\ conn'.numberOfSubscriptions = conn.numberOfSubscriptions
          /\ SubscribeSettlesIn(id) =>
                LET s == conn.subscriptions[id]
                IN  /\ audit'.subscribes[id].settled = "ok" =>
                          /\ conn'.numberOfSubscriptions =
                                conn.numberOfSubscriptions
                                + (IF audit.subscribes[id].first THEN 0 ELSE 1)
                          /\ conn'.subscriptions[id] = s
                    /\ audit'.subscribes[id].settled = "failed" =>
                          /\ conn'.numberOfSubscriptions = conn.numberOfSubscriptions
                          /\ conn'.subscriptions[id] =
                                IF s.isStopped THEN s
                                ELSE [isStopped |-> TRUE,
                                      delivered |-> Append(s.delivered, Error_(CallError))]
      ]_vars

\* a bootstrap subscription succeeded and left the refcount at 1, and the
\* call of a second subscription failed
C21_Witness ==
    \E id1, id2 \in DOMAIN audit.subscribes :
        /\ audit.subscribes[id1].settled = "ok"
        /\ audit.subscribes[id1].first
        /\ audit.subscribes[id2].settled = "failed"
        /\ conn.subscriptions[id2].delivered = <<Error_(CallError)>>
        /\ conn.numberOfSubscriptions = 1
        /\ audit.cancels = <<>>

\* the step in which the n-th Atoms.cancel call settles / in which the
\* Promise.all of unsubscribeAll call b resolves
CancelSettlesIn(n) ==
    /\ n \in 1..Len(audit.cancels)
    /\ audit.cancels[n].settled = "pending"
    /\ audit'.cancels[n].settled # "pending"

BatchResolvesIn(b) ==
    /\ b \in 1..Len(conn'.unsubscribeAlls)
    /\ conn'.unsubscribeAlls[b].state = "resolved"
    /\ b \in 1..Len(conn.unsubscribeAlls) => conn.unsubscribeAlls[b].state = "pending"

\* C22: unsubscribe decrements the refcount by exactly 1 both when the
\* Atoms.cancel call succeeds and when it fails (from 0 when the same step
\* resolves the unsubscribeAll that made the call); on success the stream
\* bound to the address is completed and the address leaves the index; on
\* failure the stream is not completed and the index is left as it is.
C22_UnsubscribeOutcomes ==
    [][\A n \in 1..Len(audit.cancels) :
          CancelSettlesIn(n) =>
             LET k == audit.cancels[n]
                 s == conn.subscriptions[k.subscriberId]
             IN  /\ conn'.numberOfSubscriptions =
                       (IF BatchResolvesIn(k.batch) THEN 0 ELSE conn.numberOfSubscriptions) - 1
                 /\ audit'.cancels[n].settled = "ok" =>
                       /\ conn'.subscriptions[k.subscriberId] =
                             IF s.isStopped THEN s
                             ELSE [isStopped |-> TRUE,
                                   delivered |-> Append(s.delivered, Complete_)]
                       /\ k.address \notin DOMAIN conn'.addressSubscriptions
                 /\ audit'.cancels[n].settled = "failed" =>
                       /\ conn'.subscriptions[k.subscriberId] = s
                       /\ conn'.addressSubscriptions = conn.addressSubscriptions
      ]_vars

\* a direct unsubscribe failed and left the stream open, and a second one
\* succeeded and completed it
C22_Witness ==
    /\ Len(audit.cancels) = 2
    /\ audit.cancels[1].settled = "failed"
    /\ audit.cancels[2].settled = "ok"
    /\ audit.cancels[1].batch = 0 /\ audit.cancels[2].batch = 0
    /\ conn.subscriptions[audit.cancels[2].subscriberId].delivered = <<Complete_>>
    /\ conn.addressSubscriptions = EmptyObj

\* C23: when unsubscribeAll() resolves, every address that was in the index
\* when it was called has been unsubscribed (stream completed, index entry
\* removed) and the refcount is 0; when a single unsubscribe fails,
\* unsubscribeAll rejects and the refcount is not forced to 0.
C23_UnsubscribeAllResolvesAtZero ==
    [][\A b \in 1..Len(conn'.unsubscribeAlls) :
          /\ BatchResolvesIn(b) =>
                /\ conn'.numberOfSubscriptions = 0
                /\ \A n \in 1..Len(audit'.cancels) :
                      audit'.cancels[n].batch = b =>
                         /\ audit'.cancels[n].settled = "ok"
                         /\ conn'.subscriptions[audit'.cancels[n].subscriberId].isStopped
                         /\ audit'.cancels[n].address \notin DOMAIN conn'.addressSubscriptions
          /\ (\E n \in 1..Len(audit'.cancels) :
                  audit'.cancels[n].batch = b /\ audit'.cancels[n].settled = "failed")
                => /\ conn'.unsubscribeAlls[b].state = "rejected"
                   /\ \A i \in 1..Len(conn'.timers) :
                         conn'.timers[i].cause # [op |-> "unsubscribeAll", id |-> b]
      ]_vars

\* the step in which an Atoms.subscribeUpdate notification is handled
AtomsNotifiedIn == audit'.atomNotified = audit.atomNotified + 1

\* what a stream delivers for the payload atoms
RECURSIVE StoreUpdates(_)
StoreUpdates(atoms) ==
    IF atoms = <<>> THEN <<>>
    ELSE <<[type |-> "next", value |-> "STORE", atom |-> Head(atoms).content]>>
         \o StoreUpdates(Tail(atoms))

\* C24: for every Atoms.subscribeUpdate notification, each atom of the
\* payload is pushed exactly once, in payload order, as a STORE update into
\* the stream registered under the notification's subscriberId and into no
\* other stream, also when its recomputed hid differs from the transported
\* one (a stream that has already terminated delivers nothing).
C24_AtomsForwardedInOrder ==
    [][AtomsNotifiedIn =>
          LET n == audit'.lastAtoms
              s == conn.subscriptions[n.subscriberId]
          IN  /\ conn'.subscriptions[n.subscriberId] =
                    IF s.isStopped THEN s
                    ELSE [s EXCEPT !.delivered = @ \o StoreUpdates(n.atoms)]
              /\ \A id \in (DOMAIN conn.subscriptions) \ {n.subscriberId} :
                    conn'.subscriptions[id] = conn.subscriptions[id]
              /\ DOMAIN conn'.subscriptions = DOMAIN conn.subscriptions
              /\ conn'.atomUpdateSubjects = conn.atomUpdateSubjects
      ]_vars

\* with two streams open, one of them received an atom whose transported hid
\* does not match followed by one whose hid matches
C24_Witness ==
    /\ audit.atomNotified = 1
    /\ audit.lastAtoms.atoms = <<SerializedAtom("a2"), SerializedAtom("a1")>>
    /\ ~hidMatches(SerializedAtom("a2"))
    /\ conn.subscriptions[audit.lastAtoms.subscriberId].delivered =
          <<[type |-> "next", value |-> "STORE", atom |-> "a2"],
            [type |-> "next", value |-> "STORE", atom |-> "a1"]>>
    /\ \E id \in DOMAIN conn.subscriptions :
          /\ id # audit.lastAtoms.subscriberId
          /\ conn.subscriptions[id] = NewSubject

\* C28: once a submission has reached a final outcome (its call failed, its
\* timeout fired, or its call succeeded and a terminal state was pushed), its
\* net effect on the refcount is zero.
C28_SubmissionNetEffectIsZero ==
    \A id \in Submissions :
        LET a == audit.submissions[id]
        IN  (\/ a.settled = "failed"
             \/ a.timedOut
             \/ /\ a.settled = "ok"
                /\ \E j \in 1..Len(a.notifications) : IsTerminal(a.notifications[j]))
            => a.increments - a.decrements = 0

\* C29: a submission made at a refcount of at least 1, for which one terminal
\* state is pushed, never arms the grace timer and never has close() called
\* because of it, whichever of the call's settling and the notification comes
\* first.
C29_SubmissionNeverArmsIdleClose ==
    \A id \in Submissions :
        (audit.submissions[id].pre >= 1 /\ audit.submissions[id].decrements <= 1)
        => /\ \A i \in 1..Len(conn.timers) :
                 ~(/\ conn.timers[i].kind = "grace"
                   /\ conn.timers[i].cause.id = id
                   /\ conn.timers[i].cause.op \in {"STORED", "failure", "submitAtom"})
           /\ \A i \in 1..Len(audit.closes) :
                 ~(/\ audit.closes[i].cause.id = id
                   /\ audit.closes[i].cause.op \in {"STORED", "failure", "submitAtom"})

\* C30: after unsubscribe(address) succeeds, every stream that subscribe had
\* returned for the address before the unsubscribe was called is terminated
\* and no subscriberId remains bound to the address.
C30_UnsubscribeCompletesEveryStream ==
    [][\A n \in 1..Len(audit.cancels) :
          (CancelSettlesIn(n) /\ audit'.cancels[n].settled = "ok") =>
             LET k == audit.cancels[n]
             IN  /\ \A id \in DOMAIN audit.subscribes :
                       (audit.subscribes[id].address = k.address /\ id <= k.upTo)
                          => conn'.subscriptions[id].isStopped
                 /\ k.address \notin DOMAIN conn'.addressSubscriptions
      ]_vars

\* ------------------------------------------------------------------------
\* Properties of the cache account system
\* ------------------------------------------------------------------------
\* C19: built without a cache provider, every operation (processAtomUpdate
\* with STORE or DELETE, loadAtoms) completes without error and touches no store.
C19_NoProviderEveryOperationIsNoOp ==
    (cache.constructed /\ ~cache.atomCache) =>
        /\ cache.last.outcome \in {"none", "resolved"}
        /\ cache.stored = {}

====
